---- MODULE Spec2Model ----
(***************************************************************************)
(* Model of the search core of the Laser chess engine (src/search.cpp):    *)
(* the iterative-deepening driver getBestMove, the root routine            *)
(* getBestMoveAtDepth, the recursive PVS with its transposition-table      *)
(* probe, null move, pruning, IID and late-move reductions, and the        *)
(* quiescence search.                                                      *)
(*                                                                         *)
(* The Board, the move generator, the evaluation and the Hash table are    *)
(* collaborators whose code is outside src/; a position is a node of an    *)
(* explicit finite game tree that carries the answers the Board gives.     *)
(* Recursion is an explicit stack of frames; every action runs one frame   *)
(* from one call, return or poll of the stop flag to the next.             *)
(***************************************************************************)
EXTENDS Integers, Sequences, FiniteSets, TLC

\* ---------------------------------------------------------------- constants

\* search modes (timeman.h)
TIME == 1
DEPTH == 2
MOVETIME == 4

\* TIME_FACTOR = 0.85 and MAX_TIME_FACTOR = 4.0, the first in hundredths
TIME_FACTOR_PCT == 85
MAX_TIME_FACTOR == 4

\* constants of the headers that are not part of src/
MATE_SCORE == 32766
INFTY == 32767
PAWN_VALUE == 100
PAWN_VALUE_EG == 100
KNIGHT_VALUE == 320
QUEEN_VALUE == 975
MAX_POS_SCORE == 120
MAX_TIME == 1000000
NULL_MOVE == 0

\* The program's MAX_DEPTH is 127 (IID_DEPTHS has MAX_DEPTH+1 = 128 entries);
\* the model scales it down to ScaledMaxDepth so that a search can reach it.
ScaledMaxDepth == 6
MAX_DEPTH == ScaledMaxDepth

\* IID_DEPTHS[d]: 0 for d <= 4, then one more every three plies, capped at 30
IID_DEPTHS(d) ==
    IF d <= 4 THEN 0
    ELSE IF (d - 2) \div 3 > 30 THEN 30 ELSE (d - 2) \div 3

FUTILITY_MARGIN(d) ==
    CASE d = 0 -> 0
      [] d = 1 -> MAX_POS_SCORE
      [] d = 2 -> MAX_POS_SCORE + KNIGHT_VALUE
      [] OTHER -> MAX_POS_SCORE + QUEEN_VALUE

REVERSE_FUTILITY_MARGIN(d) ==
    CASE d = 0 -> 0
      [] d = 1 -> MAX_POS_SCORE
      [] OTHER -> MAX_POS_SCORE + 2 * PAWN_VALUE

\* node types of a transposition-table entry
PV_NODE == "PV"
CUT_NODE == "CUT"
ALL_NODE == "ALL"

\* ------------------------------------------------------------ integer helpers

\* Op applied to the value of x; x is evaluated once, however often Op
\* reads its argument
Once(x, Op(_)) == CHOOSE r \in {Op(v) : v \in {x}} : TRUE

Min(a, b) == IF a < b THEN a ELSE b
Max(a, b) == IF a > b THEN a ELSE b
Abs(a) == IF a < 0 THEN -a ELSE a

\* C++ integer division truncates toward zero
TruncDiv(a, b) ==
    IF a >= 0 THEN a \div b ELSE -((-a) \div b)

\* ------------------------------------------------------------------- moves
\* A move is a positive integer; its tens digit is its kind:
\*   1..9 quiet, 11..19 capture, 21..29 promotion to queen (no capture),
\*   31..39 under-promotion (no capture).

isCapture(m) == m \in 11..19
isPromotion(m) == m \in 21..39
isQueenPromotion(m) == m \in 21..29
\* getPieceOnSquare(color, getStartSq(m)) and getEndSq(m)
PieceOf(m) == m % 6
EndSq(m) == m % 10

\* -------------------------------------------------------------- game tree
\* A position: the Board's answers plus the pseudo-legal moves with the
\* positions they lead to.
\*   draw  isDraw()                   chk  isInCheck(side to move)
\*   mat   evaluateMaterial()         pos  evaluatePositional()
\*   npm   getNonPawnMaterial(side)   (mat, pos: from the side to move)
\*   mvs   pseudo-legal moves, captures first
\*   nul   <<>> or <<position after doNullMove>>
\*   key   the Zobrist key the Hash table files the position under
Node(key, draw, chk, mat, pos, npm, mvs, nul) ==
    [key |-> key, draw |-> draw, chk |-> chk, mat |-> mat, pos |-> pos,
     npm |-> npm, mvs |-> mvs, nul |-> nul]

\* A pseudo-legal move of a position:
\*   m    the move          ok   doPseudoLegalMove succeeds (move is legal)
\*   gc   isCheckMove       see  getSEE at the end square
\*   mvv  getMVVLVAScore    xs   getExchangeScore
\*   val  valueOfPiece of the piece on the end square
\*   sub  the position after the move
Edge(m, ok, gc, see, mvv, xs, val, sub) ==
    [m |-> m, ok |-> ok, gc |-> gc, see |-> see, mvv |-> mvv, xs |-> xs,
     val |-> val, sub |-> sub]

\* evaluate(): the static evaluation from the side to move
Evaluate(n) == n.mat + n.pos

\* the sequence of the elements of s that satisfy Test
RECURSIVE SelectSeqIdx(_, _, _)
SelectSeqIdx(s, i, keep) ==
    IF i > Len(s) THEN <<>>
    ELSE IF i \in keep THEN <<s[i]>> \o SelectSeqIdx(s, i + 1, keep)
    ELSE SelectSeqIdx(s, i + 1, keep)

EdgesWhere(n, keep) == SelectSeqIdx(n.mvs, 1, keep)

\* the move lists the Board generates
AllPseudoLegal(n) == n.mvs
CheckEscapes(n) == n.mvs
PseudoLegalCaptures(n) ==
    EdgesWhere(n, {i \in 1..Len(n.mvs) : isCapture(n.mvs[i].m)})
PseudoLegalPromotions(n) ==
    EdgesWhere(n, {i \in 1..Len(n.mvs) : isPromotion(n.mvs[i].m)})
PseudoLegalChecks(n) ==
    EdgesWhere(n, {i \in 1..Len(n.mvs) :
        n.mvs[i].gc /\ ~isCapture(n.mvs[i].m) /\ ~isPromotion(n.mvs[i].m)})
AllLegal(n) ==
    EdgesWhere(n, {i \in 1..Len(n.mvs) : n.mvs[i].ok})

\* the edge of move m at n, <<>> when m is not pseudo-legal there
EdgeOf(n, m) == SelectSeq(n.mvs, LAMBDA e : e.m = m)

\* doPseudoLegalMove / doHashMove: is m legal at n
IsLegalMove(n, m) == SelectSeq(n.mvs, LAMBDA e : e.m = m /\ e.ok) # <<>>

\* ids of a list of edges
RECURSIVE MoveIds(_)
MoveIds(es) ==
    IF es = <<>> THEN <<>> ELSE <<es[1].m>> \o MoveIds(Tail(es))

\* ------------------------------------------------------------- move picker
\* indices are the code's, counted from 0

\* a list that is never reordered
SwapNothing(s, a, b) == s

\* MoveList::swap
Swap(s, a, b) ==
    [k \in 1..Len(s) |->
        IF k = a + 1 THEN s[b + 1] ELSE IF k = b + 1 THEN s[a + 1] ELSE s[k]]

\* a scan for a strictly smaller score
RECURSIVE ScanLeast(_, _, _, _)
ScanLeast(scores, i, bestIndex, bestScore) ==
    IF i >= Len(scores) THEN bestIndex
    ELSE IF scores[i + 1] < bestScore
         THEN ScanLeast(scores, i + 1, i, scores[i + 1])
         ELSE ScanLeast(scores, i + 1, bestIndex, bestScore)

\* the loop of nextMove: scan i..size-1 for a strictly greater score
RECURSIVE ScanBest(_, _, _, _)
ScanBest(scores, i, bestIndex, bestScore) ==
    IF i >= Len(scores) THEN bestIndex
    ELSE IF scores[i + 1] > bestScore
         THEN ScanBest(scores, i + 1, i, scores[i + 1])
         ELSE ScanBest(scores, i + 1, bestIndex, bestScore)

\* nextMove: the move returned and the two lists after the swap
nextMove(moves, scores, index) ==
    IF index >= Len(moves)
    THEN [m |-> NULL_MOVE, moves |-> moves, scores |-> scores]
    ELSE LET bestIndex == ScanBest(scores, index + 1, index, scores[index + 1])
             ms == Swap(moves, bestIndex, index)
             ss == Swap(scores, bestIndex, index)
         IN  [m |-> ms[index + 1], moves |-> ms, scores |-> ss]

\* -------------------------------------------------------------- quiescence
\* quiescence and checkQuiescence read searchParams.ply (for the mate score)
\* and change nothing but the statistics, so they are operators on the tree.

RECURSIVE quiescence(_, _, _, _, _)
RECURSIVE checkQuiescence(_, _, _, _, _)
RECURSIVE QCaptures(_, _, _, _, _, _, _, _, _)
RECURSIVE QPromotions(_, _, _, _, _, _, _)
RECURSIVE QChecks(_, _, _, _, _, _, _)
RECURSIVE CQEscapes(_, _, _, _, _, _, _, _)

\* a quiescence that searches the check-giving quiet moves at every plies
ChecksSearchedAlways(plies) == TRUE

\* quiescence line 746: the checks are searched on the first ply only
ChecksSearched(plies) == plies <= 0

\* the loop over the check-giving quiet moves (plies <= 0 only)
QChecks(n, L, i, alpha, beta, plies, ply) ==
    IF i >= Len(L) THEN alpha
    ELSE LET e == EdgeOf(n, L[i + 1])[1] IN
         IF ~e.ok THEN QChecks(n, L, i + 1, alpha, beta, plies, ply)
         ELSE LET score == -checkQuiescence(e.sub, plies + 1, -beta, -alpha, ply) IN
              IF score >= beta THEN beta
              ELSE QChecks(n, L, i + 1, Max(alpha, score), beta, plies, ply)

\* the loop over the promotions, then the checks
QPromotions(n, L, i, alpha, beta, plies, ply) ==
    IF i >= Len(L)
    THEN IF ChecksSearched(plies)
         THEN QChecks(n, MoveIds(PseudoLegalChecks(n)), 0, alpha, beta, plies, ply)
         ELSE alpha
    ELSE LET e == EdgeOf(n, L[i + 1])[1] IN
         IF e.see < 0 THEN QPromotions(n, L, i + 1, alpha, beta, plies, ply)
         ELSE IF ~e.ok THEN QPromotions(n, L, i + 1, alpha, beta, plies, ply)
         ELSE LET score == -quiescence(e.sub, plies + 1, -beta, -alpha, ply) IN
              IF score >= beta THEN beta
              ELSE QPromotions(n, L, i + 1, Max(alpha, score), beta, plies, ply)

\* the loop over the captures in nextMove order, then the promotions
QCaptures(n, L, S, i, standPat, alpha, beta, plies, ply) ==
    LET nm == nextMove(L, S, i) IN
    IF nm.m = NULL_MOVE
    THEN QPromotions(n, MoveIds(PseudoLegalPromotions(n)), 0, alpha, beta, plies, ply)
    ELSE LET e == EdgeOf(n, nm.m)[1]
             next(a) == QCaptures(n, nm.moves, nm.scores, i + 1, standPat, a,
                                  beta, plies, ply)
         IN  IF standPat + e.val < alpha - MAX_POS_SCORE THEN next(alpha)
             ELSE IF e.xs < 0 /\ e.see < -MAX_POS_SCORE THEN next(alpha)
             ELSE IF ~e.ok THEN next(alpha)
             ELSE LET score == -quiescence(e.sub, plies + 1, -beta, -alpha, ply) IN
                  IF score >= beta THEN beta ELSE next(Max(alpha, score))

quiescence(n, plies, alpha, beta, ply) ==
    IF n.chk THEN checkQuiescence(n, plies, alpha, beta, ply)
    ELSE IF n.mat >= beta + MAX_POS_SCORE THEN beta
    ELSE IF n.mat < alpha - 2 * MAX_POS_SCORE - QUEEN_VALUE THEN alpha
    ELSE LET standPat == n.mat + n.pos
             a1 == IF alpha < standPat THEN standPat ELSE alpha
             caps == PseudoLegalCaptures(n)
             scores == [k \in 1..Len(caps) |-> caps[k].mvv]
         IN  IF standPat >= beta THEN beta
             ELSE IF standPat < a1 - MAX_POS_SCORE - QUEEN_VALUE THEN a1
             ELSE QCaptures(n, MoveIds(caps), scores, 0, standPat, a1, beta,
                            plies, ply)

\* a checkQuiescence that returns its mate score as it is
RECURSIVE CQEscapesUnclamped(_, _, _, _, _, _, _, _)
CQEscapesUnclamped(n, L, i, score, alpha, beta, plies, ply) ==
    IF i >= Len(L)
    THEN IF score = -INFTY THEN -MATE_SCORE + ply + plies ELSE alpha
    ELSE LET e == EdgeOf(n, L[i + 1])[1] IN
         IF ~e.ok THEN CQEscapesUnclamped(n, L, i + 1, score, alpha, beta, plies, ply)
         ELSE LET s == -quiescence(e.sub, plies + 1, -beta, -alpha, ply) IN
              IF s >= beta THEN beta
              ELSE CQEscapesUnclamped(n, L, i + 1, s, Max(alpha, s), beta, plies, ply)

\* the loop of checkQuiescence; score is -INFTY until a legal move is searched
CQEscapes(n, L, i, score, alpha, beta, plies, ply) ==
    IF i >= Len(L)
    THEN IF score = -INFTY
         THEN LET mate == -MATE_SCORE + ply + plies IN
              IF mate >= beta THEN beta
              ELSE IF mate > alpha THEN mate ELSE alpha
         ELSE alpha
    ELSE LET e == EdgeOf(n, L[i + 1])[1] IN
         IF ~e.ok THEN CQEscapes(n, L, i + 1, score, alpha, beta, plies, ply)
         ELSE LET s == -quiescence(e.sub, plies + 1, -beta, -alpha, ply) IN
              IF s >= beta THEN beta
              ELSE CQEscapes(n, L, i + 1, s, Max(alpha, s), beta, plies, ply)

checkQuiescence(n, plies, alpha, beta, ply) ==
    CQEscapes(n, MoveIds(CheckEscapes(n)), 0, -INFTY, alpha, beta, plies, ply)

\* ------------------------------------------------- the paths of quiescence
\* The same functions, returning instead of the score the set of the move
\* sequences the call plays: a sequence has one entry per doPseudoLegalMove
\* that is followed by a recursive call, with the move, the plies of the call
\* that played it and the loop it came from. <<>> stands for the call itself.

PathStep(m, plies, by) == [m |-> m, plies |-> plies, by |-> by]
Prefixed(step, paths) == {<<step>> \o q : q \in paths}

RECURSIVE quiescencePaths(_, _, _, _, _)
RECURSIVE checkQuiescencePaths(_, _, _, _, _)
RECURSIVE QCapturesPaths(_, _, _, _, _, _, _, _, _)
RECURSIVE QPromotionsPaths(_, _, _, _, _, _, _)
RECURSIVE QChecksPaths(_, _, _, _, _, _, _)
RECURSIVE CQEscapesPaths(_, _, _, _, _, _, _, _)

QChecksPaths(n, L, i, alpha, beta, plies, ply) ==
    IF i >= Len(L) THEN {<<>>}
    ELSE LET e == EdgeOf(n, L[i + 1])[1] IN
         IF ~e.ok THEN QChecksPaths(n, L, i + 1, alpha, beta, plies, ply)
         ELSE LET score == -checkQuiescence(e.sub, plies + 1, -beta, -alpha, ply)
                  here == Prefixed(PathStep(e.m, plies, "check"),
                              checkQuiescencePaths(e.sub, plies + 1, -beta, -alpha, ply))
              IN  IF score >= beta THEN here \cup {<<>>}
                  ELSE here \cup QChecksPaths(n, L, i + 1, Max(alpha, score),
                                              beta, plies, ply)

QPromotionsPaths(n, L, i, alpha, beta, plies, ply) ==
    IF i >= Len(L)
    THEN IF ChecksSearched(plies)
         THEN QChecksPaths(n, MoveIds(PseudoLegalChecks(n)), 0, alpha, beta, plies, ply)
         ELSE {<<>>}
    ELSE LET e == EdgeOf(n, L[i + 1])[1] IN
         IF e.see < 0 THEN QPromotionsPaths(n, L, i + 1, alpha, beta, plies, ply)
         ELSE IF ~e.ok THEN QPromotionsPaths(n, L, i + 1, alpha, beta, plies, ply)
         ELSE LET score == -quiescence(e.sub, plies + 1, -beta, -alpha, ply)
                  here == Prefixed(PathStep(e.m, plies, "promotion"),
                              quiescencePaths(e.sub, plies + 1, -beta, -alpha, ply))
              IN  IF score >= beta THEN here \cup {<<>>}
                  ELSE here \cup QPromotionsPaths(n, L, i + 1, Max(alpha, score),
                                                  beta, plies, ply)

QCapturesPaths(n, L, S, i, standPat, alpha, beta, plies, ply) ==
    LET nm == nextMove(L, S, i) IN
    IF nm.m = NULL_MOVE
    THEN QPromotionsPaths(n, MoveIds(PseudoLegalPromotions(n)), 0, alpha, beta,
                          plies, ply)
    ELSE LET e == EdgeOf(n, nm.m)[1]
             next(a) == QCapturesPaths(n, nm.moves, nm.scores, i + 1, standPat, a,
                                       beta, plies, ply)
         IN  IF standPat + e.val < alpha - MAX_POS_SCORE THEN next(alpha)
             ELSE IF e.xs < 0 /\ e.see < -MAX_POS_SCORE THEN next(alpha)
             ELSE IF ~e.ok THEN next(alpha)
             ELSE LET score == -quiescence(e.sub, plies + 1, -beta, -alpha, ply)
                      here == Prefixed(PathStep(e.m, plies, "capture"),
                                  quiescencePaths(e.sub, plies + 1, -beta, -alpha, ply))
                  IN  IF score >= beta THEN here \cup {<<>>}
                      ELSE here \cup next(Max(alpha, score))

quiescencePaths(n, plies, alpha, beta, ply) ==
    IF n.chk THEN checkQuiescencePaths(n, plies, alpha, beta, ply)
    ELSE IF n.mat >= beta + MAX_POS_SCORE THEN {<<>>}
    ELSE IF n.mat < alpha - 2 * MAX_POS_SCORE - QUEEN_VALUE THEN {<<>>}
    ELSE LET standPat == n.mat + n.pos
             a1 == IF alpha < standPat THEN standPat ELSE alpha
             caps == PseudoLegalCaptures(n)
             scores == [k \in 1..Len(caps) |-> caps[k].mvv]
         IN  IF standPat >= beta THEN {<<>>}
             ELSE IF standPat < a1 - MAX_POS_SCORE - QUEEN_VALUE THEN {<<>>}
             ELSE QCapturesPaths(n, MoveIds(caps), scores, 0, standPat, a1, beta,
                                 plies, ply)

CQEscapesPaths(n, L, i, score, alpha, beta, plies, ply) ==
    IF i >= Len(L) THEN {<<>>}
    ELSE LET e == EdgeOf(n, L[i + 1])[1] IN
         IF ~e.ok THEN CQEscapesPaths(n, L, i + 1, score, alpha, beta, plies, ply)
         ELSE LET s == -quiescence(e.sub, plies + 1, -beta, -alpha, ply)
                  here == Prefixed(PathStep(e.m, plies, "escape"),
                              quiescencePaths(e.sub, plies + 1, -beta, -alpha, ply))
              IN  IF s >= beta THEN here \cup {<<>>}
                  ELSE here \cup CQEscapesPaths(n, L, i + 1, s, Max(alpha, s), beta,
                                                plies, ply)

checkQuiescencePaths(n, plies, alpha, beta, ply) ==
    CQEscapesPaths(n, MoveIds(CheckEscapes(n)), 0, -INFTY, alpha, beta, plies, ply)

\* ------------------------------------------------------------------ inputs

\* the games the searches run on are defined below the machine: Games
\* the budgets of a go: milliseconds for TIME and MOVETIME, plies for DEPTH
TimeBudget == 10
MaxDepthBudget == MAX_DEPTH + 1
\* the readings of the clock, in ms since startTime: at the start, past
\* TIME_FACTOR of the budget, and past MAX_TIME_FACTOR times the budget
ClockPoints == {0, TimeBudget - 1, MAX_TIME_FACTOR * TimeBudget + 1}
\* what an uninitialised int may hold when it is printed
GarbageScores == {-7, 7}

VARIABLES
    inp,      \* the arguments of getBestMove: [game, mode, value]
    isStop,   \* the process-wide stop flag
    clock,    \* ms elapsed since searchParams.startTime
    pc,       \* where getBestMove / getBestMoveAtDepth stand
    drv,      \* the locals of getBestMove
    rt,       \* the locals of getBestMoveAtDepth
    stack,    \* the frames of PVS (with its probeTT and getBestMoveForSort)
    ret,      \* what the call that returned last handed back
    sp,       \* searchParams
    tt,       \* transpositionTable
    out,      \* the lines written to stdout
    pick,     \* a move list and score list handed to nextMove, call by call
    red,      \* a node's depth, evaluation, beta and move count, and the
              \* depths its reduced searches are called with
    obs       \* observations of the run, read by the properties only

vars == <<inp, isStop, clock, pc, drv, rt, stack, ret, sp, tt, out, pick, red,
          obs>>

\* ------------------------------------------------------------- search state

\* rows of killers the searches of the model can index; the array itself has
\* rows 0..MAX_DEPTH-1, a row past it lies in the memory of historyTable,
\* which reset() zeroes as well
KillerRows == 0..MaxDepthBudget

\* a table that is never aged: the counters survive the return
KeepHistoryTable(p) == p

\* SearchParameters::resetHistoryTable
resetHistoryTable(p) == [p EXCEPT !.history = <<>>]

\* a reset that leaves the killer slots as they are
resetKeepingKillers(p) ==
    resetHistoryTable(
        [p EXCEPT !.ply = 0, !.nullMoveCount = 0,
                  !.killers = [r \in KillerRows |->
                                  IF r \in DOMAIN p.killers THEN p.killers[r]
                                  ELSE <<NULL_MOVE, NULL_MOVE>>]])

\* SearchParameters::reset
reset(p) ==
    resetHistoryTable(
        [p EXCEPT !.ply = 0, !.nullMoveCount = 0,
                  !.killers = [r \in KillerRows |-> <<NULL_MOVE, NULL_MOVE>>]])

\* historyTable[color][piece][to], a function on the counters written so far
HistoryAt(p, color, m) ==
    LET k == <<color, PieceOf(m), EndSq(m)>> IN
    IF k \in DOMAIN p.history THEN p.history[k] ELSE 0

HistoryAdd(p, color, m, d) ==
    LET k == <<color, PieceOf(m), EndSq(m)>>
        h == p.history
    IN  [p EXCEPT !.history =
            [x \in DOMAIN h \cup {k} |->
                IF x = k THEN HistoryAt(p, color, m) + d ELSE h[x]]]

\* Hash::get and Hash::add; an add to a stored position replaces its entry
TTGet(t, key) == IF key \in DOMAIN t THEN <<t[key]>> ELSE <<>>

TTAdd(t, key, depth, m, score, nodeType) ==
    [x \in DOMAIN t \cup {key} |->
        IF x = key
        THEN [m |-> m, depth |-> depth, score |-> score, type |-> nodeType]
        ELSE t[x]]

\* changePV(best, parent, child): the new content of parent
changePV(best, child) == <<best>> \o child

\* the position reached from n by the moves of path (0 is the null move)
ChildAt(n, m) ==
    IF m = NULL_MOVE THEN n.nul[1] ELSE EdgeOf(n, m)[1].sub

RECURSIVE NodeAt(_, _)
NodeAt(n, path) ==
    IF path = <<>> THEN n ELSE NodeAt(ChildAt(n, Head(path)), Tail(path))

\* side to move after path, the root's side being 0
ColorAt(path) == Len(path) % 2

\* the mate or stalemate score without the clamp into the window
scoreMateUnclamped(isInCheck, ply, alpha, beta) ==
    IF isInCheck THEN -MATE_SCORE + ply ELSE 0

\* scoreMate
scoreMate(isInCheck, ply, alpha, beta) ==
    LET score == IF isInCheck THEN -MATE_SCORE + ply ELSE 0 IN
    IF score >= beta THEN beta
    ELSE IF score > alpha THEN score ELSE alpha

\* piece indices of the headers, used as ordering scores at shallow nodes
PAWNS == 0
KNIGHTS == 1
ROOKS == 3

\* ------------------------------------------------------------------ frames
\* The part of the state the search functions change, as one record:
\*   [stack, ret, sp, tt, isStop, obs]
\* and every step of PVS as an operator from that record to the next one.

Top(M) == M.stack[Len(M.stack)]
SetTop(M, f) == [M EXCEPT !.stack[Len(M.stack)] = f]

\* a call of PVS(copy, color^1, depth, alpha, beta, pvLine); pv is what the
\* buffer pvLine points to holds when the call is made
NewFrame(path, depth, alpha, beta, pv) ==
    [pc |-> "entry", path |-> path, depth |-> depth, alpha |-> alpha,
     beta |-> beta, a0 |-> alpha, isPV |-> FALSE, hashed |-> NULL_MOVE,
     staticEval |-> 0, moves |-> <<>>, scores |-> <<>>, i |-> 0,
     movesSearched |-> 0, score |-> -INFTY, toHash |-> NULL_MOVE, m |-> NULL_MOVE,
     reduction |-> 0, pv |-> pv, line |-> <<>>,
     ii |-> 0, itemp |-> -1, ialpha |-> -MATE_SCORE, iline |-> <<>>,
     searched |-> 0, ply0 |-> 0]

\* searchParams.ply++; PVS(...): the caller f waits, the callee runs
Push(M, f, child) ==
    [M EXCEPT !.stack = Append([M.stack EXCEPT ![Len(M.stack)] = f],
                               [child EXCEPT !.ply0 = M.sp.ply + 1]),
              !.sp.ply = @ + 1]

\* return score from the frame f; the caller finds the score and the content
\* of the buffer it passed in ret
PvsReturn(M, f, score, how) ==
    [M EXCEPT !.stack = SubSeq(M.stack, 1, Len(M.stack) - 1),
              !.ret = [score |-> score, pv |-> f.pv],
              !.obs.lastRet = [how |-> how, alpha |-> f.a0, beta |-> f.beta,
                               score |-> score, depth |-> f.depth,
                               path |-> f.path, pv |-> f.pv,
                               ply |-> M.sp.ply, searched |-> f.searched,
                               ply0 |-> f.ply0]]

\* the draw score without the clamp into the window
DrawScoreUnclamped(alpha, beta) == 0

\* 0 clamped into [alpha, beta] the way the draw branch of PVS does it
DrawScore(alpha, beta) ==
    IF 0 >= beta THEN beta
    ELSE IF 0 > alpha THEN 0 ELSE alpha

\* PVS lines 279-309 with probeTT lines 565-608: the leaf, the draw, the
\* probe of the table, up to the search of the hash move
EntryStep(root, M) ==
    LET f == Top(M)
        n == NodeAt(root, f.path)
        e == TTGet(M.tt, n.key)
        g == [f EXCEPT !.isPV = (f.beta - f.alpha > 1), !.pc = "null"]
    IN  IF f.depth <= 0
        THEN PvsReturn(M, [f EXCEPT !.pv = <<>>],
                       quiescence(n, 0, f.alpha, f.beta, M.sp.ply), "leaf")
        ELSE IF n.draw
        THEN PvsReturn(M, f, DrawScore(f.alpha, f.beta), "draw")
        ELSE IF e = <<>> THEN SetTop(M, g)
        ELSE IF e[1].type = ALL_NODE
        THEN IF e[1].depth >= f.depth /\ e[1].score <= f.alpha
             THEN PvsReturn([M EXCEPT !.obs.probe = e[1]], f, f.alpha, "ttcut")
             ELSE SetTop(M, g)
        ELSE IF e[1].depth >= f.depth /\ e[1].type = CUT_NODE /\ e[1].score >= f.beta
        THEN PvsReturn([M EXCEPT !.obs.probe = e[1]], f, f.beta, "ttcut")
        ELSE IF IsLegalMove(n, e[1].m)
        THEN Push(M, [g EXCEPT !.pc = "hashRet", !.hashed = e[1].m],
                  NewFrame(Append(f.path, e[1].m), f.depth - 1, -f.beta,
                           -f.alpha, <<>>))
        ELSE SetTop(M, g)

\* a probeTT that returns from the hash-move cutoff before searchParams.ply--
HashRetStepNoRestore(M) ==
    LET f == Top(M)
        score == -M.ret.score
        M1 == [M EXCEPT !.sp.ply = @ - 1]
        g == [f EXCEPT !.pc = "null", !.searched = @ + 1]
    IN  IF score >= f.beta THEN PvsReturn(M, g, f.beta, "hashcut")
        ELSE IF score > f.alpha
        THEN SetTop(M1, [g EXCEPT !.alpha = score,
                                  !.pv = changePV(f.hashed, M.ret.pv)])
        ELSE SetTop(M1, g)

\* probeTT lines 609-626: the hash move has been searched
HashRetStep(M) ==
    LET f == Top(M)
        score == -M.ret.score
        M1 == [M EXCEPT !.sp.ply = @ - 1]
        g == [f EXCEPT !.pc = "null", !.searched = @ + 1]
    IN  IF score >= f.beta THEN PvsReturn(M1, g, f.beta, "hashcut")
        ELSE IF score > f.alpha
        THEN SetTop(M1, [g EXCEPT !.alpha = score,
                                  !.pv = changePV(f.hashed, M.ret.pv)])
        ELSE SetTop(M1, g)

\* the score a quiet (or late-listed) move gets for the ordering
QuietScore(M, f, m, k0, k1, promo) ==
    IF m = M.sp.killers[M.sp.ply][1] THEN k0
    ELSE IF m = M.sp.killers[M.sp.ply][2] THEN k1
    ELSE IF isQueenPromotion(m) THEN promo
    ELSE -MATE_SCORE + HistoryAt(M.sp, ColorAt(f.path), m)

\* the number of captures the move list starts with
RECURSIVE CapturePrefix(_, _)
CapturePrefix(L, i) ==
    IF i >= Len(L) \/ ~isCapture(L[i + 1]) THEN i ELSE CapturePrefix(L, i + 1)

\* legalMoves.remove(i) for the first i that holds the hash move
RemoveFirst(L, m) ==
    LET hit == {k \in 1..Len(L) : L[k] = m} IN
    IF hit = {} THEN L
    ELSE LET j == CHOOSE k \in hit : \A x \in hit : k <= x IN
         SubSeq(L, 1, j - 1) \o SubSeq(L, j + 1, Len(L))

\* PVS lines 351-446: reverse futility, move generation, the ordering scores,
\* and the decision to run internal iterative deepening
\* n is the position of the frame f
GenAt(n, M, f) ==
    LET gen == MoveIds(IF n.chk THEN CheckEscapes(n) ELSE AllPseudoLegal(n))
        L == IF f.hashed # NULL_MOVE THEN RemoveFirst(gen, f.hashed) ELSE gen
        index == CapturePrefix(L, 0)
        bySEE == f.depth >= 3 \/ f.isPV
        scores == [k \in 1..Len(L) |->
            IF k <= index
            THEN IF bySEE THEN EdgeOf(n, L[k])[1].see ELSE EdgeOf(n, L[k])[1].mvv
            ELSE IF bySEE
                 THEN QuietScore(M, f, L[k], 0, -1, MAX_POS_SCORE)
                 ELSE QuietScore(M, f, L[k], PAWNS - KNIGHTS,
                                 PAWNS - KNIGHTS - 1, 8 * ROOKS)]
        g == [f EXCEPT !.moves = L, !.scores = scores, !.i = 0,
                       !.movesSearched = IF f.hashed = NULL_MOVE THEN 0 ELSE 1,
                       !.score = -INFTY, !.toHash = NULL_MOVE, !.reduction = 0]
    IN  IF /\ ~f.isPV /\ ~n.chk /\ n.npm /\ f.depth <= 2
           /\ f.staticEval - REVERSE_FUTILITY_MARGIN(f.depth) >= f.beta
        THEN PvsReturn(M, f, f.beta, "rfp")
        ELSE IF Len(gen) = 0
        THEN PvsReturn(M, f, scoreMate(n.chk, M.sp.ply, f.alpha, f.beta), "mate")
        ELSE IF bySEE /\ f.depth >= 5 /\ f.hashed = NULL_MOVE
        THEN SetTop(M, [g EXCEPT !.pc = "iid", !.ii = 0, !.itemp = -1,
                                 !.ialpha = -MATE_SCORE, !.iline = <<>>])
        ELSE SetTop(M, [g EXCEPT !.pc = "loop"])

GenStep(root, M, f) ==
    Once(NodeAt(root, f.path), LAMBDA n : Once(f, LAMBDA g : GenAt(n, M, g)))

\* a null-move reduction without the cap at depth - 2
NullReductionUncapped(depth, staticEval, beta) ==
    LET base == IF depth >= 11 THEN 4 ELSE IF depth >= 6 THEN 3 ELSE 2 IN
    base + TruncDiv(staticEval - beta, PAWN_VALUE)

\* the reduction of the null-move search
NullReduction(depth, staticEval, beta) ==
    LET base == IF depth >= 11 THEN 4 ELSE IF depth >= 6 THEN 3 ELSE 2 IN
    Min(depth - 2, base + TruncDiv(staticEval - beta, PAWN_VALUE))

\* PVS lines 311-338: the static evaluation and the null move
NullStep(root, M) ==
    LET f0 == Top(M)
        n == NodeAt(root, f0.path)
        f == [f0 EXCEPT !.staticEval = Evaluate(n), !.line = <<>>]
        reduction == NullReduction(f.depth, f.staticEval, f.beta)
    IN  IF /\ f.depth >= 3 /\ ~f.isPV /\ M.sp.nullMoveCount < 2
           /\ f.staticEval >= f.beta /\ ~n.chk /\ n.npm
        THEN Push([M EXCEPT !.sp.nullMoveCount = @ + 1],
                  [f EXCEPT !.pc = "nullRet"],
                  NewFrame(Append(f.path, NULL_MOVE), f.depth - 1 - reduction,
                           -f.beta, -f.alpha, f.line))
        ELSE GenStep(root, M, f)

\* PVS lines 339-349: the null-move search has returned
NullRetStep(root, M) ==
    LET f0 == Top(M)
        nullScore == -M.ret.score
        f == [f0 EXCEPT !.line = M.ret.pv]
        M1 == [M EXCEPT !.sp.ply = @ - 1, !.sp.nullMoveCount = @ - 1]
    IN  IF nullScore >= f.beta THEN PvsReturn(M1, f, f.beta, "null")
        ELSE GenStep(root, M1, f)

\* getBestMoveForSort lines 240-267 seen from the PVS frame that called it
\* (PVS lines 411-417): the loop head, up to the next search of a move
IIDStep(root, M) ==
    LET f == Top(M)
        n == NodeAt(root, f.path)
        depth == IID_DEPTHS(f.depth)
        m == f.moves[f.ii + 1]
    IN  IF f.ii >= Len(f.moves)
        THEN IF f.itemp = -1
             THEN PvsReturn(M, f, scoreMate(n.chk, M.sp.ply, f.alpha, f.beta), "mate")
             ELSE SetTop(M, [f EXCEPT !.pc = "loop",
                                      !.scores[f.itemp + 1] = INFTY])
        ELSE IF ~IsLegalMove(n, m)
        THEN SetTop(M, [f EXCEPT !.ii = @ + 1])
        ELSE IF f.ii # 0
        THEN Push(M, [f EXCEPT !.pc = "iidZw"],
                  NewFrame(Append(f.path, m), depth - 1, -f.ialpha - 1,
                           -f.ialpha, f.iline))
        ELSE Push(M, [f EXCEPT !.pc = "iidFull"],
                  NewFrame(Append(f.path, m), depth - 1, -MATE_SCORE,
                           -f.ialpha, f.iline))

\* getBestMoveForSort lines 261-264: score > alpha, then the next move
IIDAfter(M, f, score) ==
    SetTop(M, IF score > f.ialpha
              THEN [f EXCEPT !.pc = "iid", !.ialpha = score, !.itemp = f.ii,
                             !.ii = @ + 1]
              ELSE [f EXCEPT !.pc = "iid", !.ii = @ + 1])

\* getBestMoveForSort lines 247-253: the null-window search has returned
IIDZwRetStep(root, M) ==
    LET f0 == Top(M)
        score == -M.ret.score
        f == [f0 EXCEPT !.iline = M.ret.pv]
        M1 == [M EXCEPT !.sp.ply = @ - 1]
    IN  IF f.ialpha < score /\ score < MATE_SCORE
        THEN Push(M1, [f EXCEPT !.pc = "iidFull"],
                  NewFrame(Append(f.path, f.moves[f.ii + 1]),
                           IID_DEPTHS(f.depth) - 1, -MATE_SCORE, -f.ialpha,
                           f.iline))
        ELSE IIDAfter(M1, f, score)

\* getBestMoveForSort lines 251-252 and 257-258: a full-window search returned
IIDFullRetStep(M) ==
    LET f0 == Top(M)
        f == [f0 EXCEPT !.iline = M.ret.pv]
    IN  IIDAfter([M EXCEPT !.sp.ply = @ - 1], f, -M.ret.score)

\* the late-move reduction of PVS lines 488-495
LMReduction(depth, movesSearched) ==
    Min(depth - 2, ((depth - 3) * 19 + movesSearched * 8) \div 76)

\* an end of PVS that stores a PV entry whenever alpha ended inside the
\* window, whether or not the move loop found the move that raised it
EndStepAnyPV(root, M, f) ==
    LET n == NodeAt(root, f.path)
        color == ColorAt(f.path)
    IN  IF f.score = -INFTY
        THEN PvsReturn(M, f, scoreMate(n.chk, M.sp.ply, f.alpha, f.beta), "mate")
        ELSE IF f.a0 < f.alpha /\ f.alpha < f.beta
        THEN PvsReturn(
                 [M EXCEPT !.tt = TTAdd(M.tt, n.key, f.depth, f.toHash, f.alpha, PV_NODE),
                           !.obs.lastStore = [path |-> f.path, m |-> f.toHash,
                                              type |-> PV_NODE],
                           !.sp = IF f.toHash # NULL_MOVE /\ ~isCapture(f.toHash)
                                  THEN HistoryAdd(M.sp, color, f.toHash, f.depth * f.depth)
                                  ELSE M.sp],
                 f, f.alpha, "normal")
        ELSE IF f.alpha <= f.a0
        THEN PvsReturn(
                 [M EXCEPT !.tt = TTAdd(M.tt, n.key, f.depth, NULL_MOVE, f.alpha, ALL_NODE),
                           !.obs.lastStore = [path |-> f.path, m |-> NULL_MOVE,
                                              type |-> ALL_NODE]],
                 f, f.alpha, "normal")
        ELSE PvsReturn(M, f, f.alpha, "normal")

\* PVS lines 542-561: the move loop is over
EndStep(root, M, f) ==
    LET n == NodeAt(root, f.path)
        color == ColorAt(f.path)
    IN  IF f.score = -INFTY
        THEN PvsReturn(M, f, scoreMate(n.chk, M.sp.ply, f.alpha, f.beta), "mate")
        ELSE IF f.toHash # NULL_MOVE /\ f.a0 < f.alpha /\ f.alpha < f.beta
        THEN PvsReturn(
                 [M EXCEPT !.tt = TTAdd(M.tt, n.key, f.depth, f.toHash, f.alpha, PV_NODE),
                           !.obs.lastStore = [path |-> f.path, m |-> f.toHash,
                                              type |-> PV_NODE],
                           !.sp = IF ~isCapture(f.toHash)
                                  THEN HistoryAdd(M.sp, color, f.toHash, f.depth * f.depth)
                                  ELSE M.sp],
                 f, f.alpha, "normal")
        ELSE IF f.alpha <= f.a0
        THEN PvsReturn(
                 [M EXCEPT !.tt = TTAdd(M.tt, n.key, f.depth, NULL_MOVE, f.alpha, ALL_NODE),
                           !.obs.lastStore = [path |-> f.path, m |-> NULL_MOVE,
                                              type |-> ALL_NODE]],
                 f, f.alpha, "normal")
        ELSE PvsReturn(M, f, f.alpha, "normal")

\* PVS lines 447-513: one turn of the move loop, from nextMove to the search
\* of the move; now is the reading of the clock
\* n is the position of the top frame, nm what nextMove hands back
LoopAt(root, M, now, n, nm) ==
    LET f0 == Top(M)
        f == [f0 EXCEPT !.moves = nm.moves, !.scores = nm.scores, !.m = nm.m]
        m == nm.m
        e == EdgeOf(n, m)[1]
        stop == M.isStop \/ now > M.sp.timeLimit
        lmr == /\ ~f.isPV /\ ~n.chk /\ ~isCapture(m) /\ f.depth >= 3
               /\ f.movesSearched > 2 /\ f.alpha <= f.a0
               /\ m # M.sp.killers[M.sp.ply][1] /\ m # M.sp.killers[M.sp.ply][2]
               /\ ~isPromotion(m) /\ ~e.sub.chk
        reduction == IF lmr THEN LMReduction(f.depth, f.movesSearched) ELSE 0
        g == [f EXCEPT !.reduction = reduction]
    IN  IF m = NULL_MOVE THEN EndStep(root, M, f)
        ELSE IF stop
        THEN PvsReturn([M EXCEPT !.isStop = TRUE, !.obs.stopSeen = TRUE],
                       f, -INFTY, "stop")
        ELSE IF /\ ~f.isPV /\ f.depth <= 3
                /\ f.staticEval <= f.alpha - FUTILITY_MARGIN(f.depth)
                /\ ~n.chk /\ ~isCapture(m) /\ Abs(f.alpha) < QUEEN_VALUE
                /\ ~isPromotion(m) /\ ~e.gc
        THEN SetTop(M, [f EXCEPT !.score = f.alpha, !.i = @ + 1])
        ELSE IF ~e.ok THEN SetTop(M, [f EXCEPT !.i = @ + 1])
        ELSE IF f.movesSearched # 0
        THEN Push(M, [g EXCEPT !.pc = "zwRet"],
                  NewFrame(Append(f.path, m), f.depth - 1 - reduction,
                           -f.alpha - 1, -f.alpha, f.line))
        ELSE Push(M, [g EXCEPT !.pc = "fullRet"],
                  NewFrame(Append(f.path, m), f.depth - 1, -f.beta, -f.alpha,
                           f.line))

LoopStep(root, M, now) ==
    Once(NodeAt(root, Top(M).path), LAMBDA n :
        Once(nextMove(Top(M).moves, Top(M).scores, Top(M).i), LAMBDA nm :
            LoopAt(root, M, now, n, nm)))

\* killers that take every quiet fail-high into slot 0
KillersAfterUnguarded(k, m) == <<m, k[1]>>

\* the killers of the ply after the quiet move m failed high (lines 524-527)
KillersAfter(k, m) ==
    IF m # k[1] THEN <<m, k[1]>> ELSE k

\* PVS lines 515-539: the move m has its score
AfterSearch(root, M, f, score) ==
    LET n == NodeAt(root, f.path)
        m == f.m
        ply == M.sp.ply
        g == [f EXCEPT !.score = score, !.searched = @ + 1]
        M1 == [M EXCEPT !.tt = TTAdd(M.tt, n.key, f.depth, m, f.beta, CUT_NODE),
                        !.obs.lastStore = [path |-> f.path, m |-> m,
                                           type |-> CUT_NODE]]
        M2 == IF isCapture(m) THEN M1
              ELSE [M1 EXCEPT !.sp =
                       HistoryAdd([M.sp EXCEPT !.killers[ply] = KillersAfter(@, m)],
                                  ColorAt(f.path), m, f.depth * f.depth),
                              !.obs.killerHit =
                                  [ply |-> ply, m |-> m, before |-> M.sp.killers[ply]]]
    IN  IF score >= f.beta THEN PvsReturn(M2, g, f.beta, "failhigh")
        ELSE IF score > f.alpha
        THEN SetTop(M, [g EXCEPT !.pc = "loop", !.alpha = score, !.toHash = m,
                                 !.pv = changePV(m, f.line),
                                 !.movesSearched = @ + 1, !.i = @ + 1])
        ELSE SetTop(M, [g EXCEPT !.pc = "loop", !.movesSearched = @ + 1,
                                 !.i = @ + 1])

\* PVS lines 499-506: the null-window search of the move has returned
ZwRetStep(root, M) ==
    LET f0 == Top(M)
        score == -M.ret.score
        f == [f0 EXCEPT !.line = M.ret.pv]
        M1 == [M EXCEPT !.sp.ply = @ - 1]
    IN  IF f.alpha < score /\ score < f.beta
        THEN Push(M1, [f EXCEPT !.pc = "fullRet"],
                  NewFrame(Append(f.path, f.m), f.depth - 1, -f.beta, -f.alpha,
                           f.line))
        ELSE AfterSearch(root, M1, f, score)

\* PVS lines 504-505 and 511-512: a full-window search of the move returned
FullRetStep(root, M) ==
    LET f0 == Top(M)
        f == [f0 EXCEPT !.line = M.ret.pv]
    IN  AfterSearch(root, [M EXCEPT !.sp.ply = @ - 1], f, -M.ret.score)

\* -------------------------------------------------------------------- games
\* shorthands for the positions and moves of the games

\* a quiet legal move that gives no check
Quiet(m, sub) == Edge(m, TRUE, FALSE, 0, 0, 0, 0, sub)
\* a position that is not drawn, not in check, with non-pawn material
Pos(key, mat, mvs) == Node(key, FALSE, FALSE, mat, 0, TRUE, mvs, <<>>)

\* a position without moves: stalemate, or mate when in check
Dead(key, chk, mat) == Node(key, FALSE, chk, mat, 0, FALSE, <<>>, <<>>)

\* four root moves: the second is better than the first, the third is a
\* stalemate that ties with the second at depth 1
Game1 ==
    Pos(1, 0, <<
        Quiet(1, Pos(2, 30, <<
            Quiet(3, Pos(4, -50, <<>>)),
            Quiet(4, Pos(5, -10, <<>>)) >>)),
        Quiet(2, Pos(3, -20, <<
            Quiet(5, Pos(6, 40, <<>>)) >>)),
        Quiet(6, Dead(7, FALSE, -20)),
        Quiet(7, Dead(8, FALSE, 50)) >>)

\* a drawn position next to a line that scores below 0
Game2 ==
    Pos(1, 0, <<
        Quiet(1, Pos(2, 50, <<
            Quiet(3, Pos(4, -50, <<>>)) >>)),
        Quiet(2, Node(3, TRUE, FALSE, 100, 0, TRUE, <<>>, <<>>)) >>)

\* a principal line with three replies next to a reply that is refuted by
\* passing; the position after the pass shares its hash key with the
\* principal reply
Game3 ==
    Pos(1, 0, <<
        Quiet(1, Pos(7, 0, <<
            Quiet(3, Dead(11, FALSE, 30)),
            Quiet(4, Dead(12, FALSE, 10)),
            Quiet(5, Dead(13, FALSE, 20)) >>)),
        Quiet(2, Node(8, FALSE, FALSE, 400, 0, TRUE,
            << Quiet(6, Dead(14, FALSE, -60)) >>,
            << Node(7, FALSE, FALSE, -400, 0, FALSE,
                   << Quiet(8, Dead(15, FALSE, 100)) >>, <<>>) >>)) >>)

\* one forced line, longer than the deepest iteration
RECURSIVE Chain(_, _)
Chain(key, len) ==
    IF len = 0 THEN Dead(key, FALSE, 0)
    ELSE Pos(key, 0, << Quiet(1 + (key % 2), Chain(key + 1, len - 1)) >>)

Game4 == Chain(1, MAX_DEPTH + 2)

\* a pseudo-legal quiet move that leaves the own king in check
Illegal(m) == Edge(m, FALSE, FALSE, 0, 0, 0, 0, Dead(0, FALSE, 0))

\* a line that scores a little above 0 next to a stalemate of a side that is
\* far behind: its king has one pseudo-legal move, which is not legal
Game5 ==
    Pos(1, 0, <<
        Quiet(1, Pos(2, -10, <<
            Quiet(3, Pos(4, 10, <<>>)) >>)),
        Quiet(2, Node(3, FALSE, FALSE, -900, 0, FALSE, << Illegal(4) >>, <<>>)) >>)

\* two replies of the root lead to different positions with the same hash
\* key: the first is refuted by move 4, the second has only move 6, which
\* loses
Game6 ==
    Pos(1, 0, <<
        Quiet(1, Pos(2, -20, << Quiet(3, Dead(4, FALSE, 20)) >>)),
        Quiet(2, Node(3, FALSE, FALSE, 0, 0, FALSE,
            << Quiet(4, Dead(5, FALSE, -50)) >>, <<>>)),
        Quiet(5, Node(3, FALSE, FALSE, 0, 0, FALSE,
            << Quiet(6, Dead(6, FALSE, 100)) >>, <<>>)) >>)

\* one root move whose two replies each have a reply of their own
Game7 ==
    Pos(1, 0, <<
        Quiet(1, Pos(2, 0, <<
            Quiet(3, Pos(4, 0, << Quiet(5, Dead(6, FALSE, 0)) >>)),
            Quiet(4, Pos(5, 10, << Quiet(6, Dead(7, FALSE, 0)) >>)) >>)) >>)

\* a position that is refuted by each move of its list, in the list's order
Refuted(key, ms) ==
    Node(key, FALSE, FALSE, 0, 0, FALSE,
         [k \in 1..Len(ms) |-> Quiet(ms[k], Dead(key + 10 * k, FALSE, -50))],
         <<>>)

\* a best root move and four root moves that are refuted in turn by the
\* quiet replies 6, 6, 7 and 6
Game8 ==
    Pos(1, 0, <<
        Quiet(1, Pos(2, -20, << Quiet(8, Dead(3, FALSE, 20)) >>)),
        Quiet(2, Refuted(4, <<6>>)),
        Quiet(3, Refuted(5, <<6>>)),
        Quiet(4, Refuted(6, <<7>>)),
        Quiet(5, Refuted(7, <<6>>)) >>)

\* a legal capture that wins a pawn
Capture(m, sub) == Edge(m, TRUE, FALSE, 0, 10, 0, 100, sub)
\* a legal quiet move that gives check
QuietCheck(m, sub) == Edge(m, TRUE, TRUE, 0, 0, 0, 0, sub)
\* a position of the side in check
InCheck(key, mat, mvs) == Node(key, FALSE, TRUE, mat, 0, TRUE, mvs, <<>>)

\* after root move 1: a capture that gives check, answered by a king move,
\* and a quiet check, answered by a king move into a position with a capture
\* and a second quiet check; after root move 2 the side to move is in check
Game9 ==
    Pos(1, 0, <<
        Quiet(1, Pos(2, 0, <<
            Capture(11, InCheck(3, 0, << Quiet(1, Dead(4, FALSE, 0)) >>)),
            QuietCheck(2, InCheck(5, 0, <<
                Quiet(3, Pos(6, 0, <<
                    Capture(12, Dead(9, FALSE, 0)),
                    QuietCheck(4, InCheck(7, 0, <<
                        Quiet(5, Dead(8, FALSE, 0)) >>)) >>)) >>)) >>)),
        Quiet(2, InCheck(10, 0, << Quiet(6, Dead(11, FALSE, 0)) >>)) >>)

\* a forced line of three moves that leaves the side of the root 30 ahead
Game10 ==
    Pos(1, 0, <<
        Quiet(1, Pos(2, -30, <<
            Quiet(3, Pos(3, 30, << Quiet(1, Dead(4, FALSE, -30)) >>)) >>)) >>)

\* a level line next to a reply that leaves the opponent far ahead; after
\* the opponent passes, the side of the root has a capture
Game11 ==
    Pos(1, 0, <<
        Quiet(1, Pos(2, 0, << Quiet(3, Dead(3, FALSE, 0)) >>)),
        Quiet(2, Node(4, FALSE, FALSE, 400, 0, TRUE,
            << Quiet(4, Dead(5, FALSE, -400)) >>,
            << Node(6, FALSE, FALSE, -400, 0, TRUE,
                   << Capture(11, Dead(7, FALSE, 300)) >>, <<>>) >>)) >>)

\* a line that wins a little next to a move that lets the opponent mate
Game12 ==
    Pos(1, 0, <<
        Quiet(1, Pos(2, -10, << Quiet(3, Dead(3, FALSE, 10)) >>)),
        Quiet(2, Pos(4, 0, << QuietCheck(4, Dead(5, TRUE, 0)) >>)) >>)

\* a forced line through positions without non-pawn material: mats gives
\* the material of each position from its side to move
RECURSIVE ForcedLine(_, _, _)
ForcedLine(key, mats, chk) ==
    IF Len(mats) = 1 THEN Dead(key, FALSE, mats[1])
    ELSE Node(key, FALSE, chk, mats[1], 0, FALSE,
              << Edge(7 + (Len(mats) % 2), TRUE, ~chk, 0, 0, 0, 0,
                      ForcedLine(key + 1, Tail(mats), ~chk)) >>, <<>>)

\* a line that looks 25 down for its first side in every search up to depth
\* 3 and is 50 up in a search of depth 4
Trap(key) == ForcedLine(key, <<-25, 25, -25, 25, -25, 25, 50>>, FALSE)
\* a line that is 50 up for its first side at every depth
Sound(key) == ForcedLine(key, <<50, -50, 50, -50, 50, -50, 50>>, FALSE)

\* a level root move next to a root move with six replies: the first reply
\* refutes it in every search up to depth 4 and fails at depth 5, four
\* replies lose, and the sixth is the same trap as the first
Game13 ==
    Pos(1, 0, <<
        Quiet(1, Dead(2, FALSE, 0)),
        Quiet(2, Node(3, FALSE, FALSE, 5, 0, FALSE, <<
            Quiet(1, Trap(110)), Quiet(2, Sound(120)), Quiet(3, Sound(130)),
            Quiet(4, Sound(140)), Quiet(5, Sound(150)), Quiet(6, Trap(160)) >>,
            <<>>)) >>)

Games ==
    <<Game1, Game2, Game3, Game4, Game5, Game6, Game7, Game8, Game9, Game10,
      Game11, Game12, Game13>>

Root == Games[inp.game]

\* ------------------------------------------------------------------ driver

\* getBestMove lines 137-138
TimeLimitOf(mode, value) ==
    IF mode = TIME THEN MAX_TIME_FACTOR * value ELSE MAX_TIME

\* a driver whose DEPTH mode stops one iteration short
ContinueSearchBelow(mode, value, timeSoFar, rootDepth) ==
    \/ /\ mode = TIME
       /\ timeSoFar * 100 < value * TIME_FACTOR_PCT
       /\ rootDepth <= MAX_DEPTH
    \/ /\ mode = DEPTH
       /\ rootDepth < value

\* getBestMove lines 165-167: the condition of the do-while loop; timeSoFar
\* is in ms, the unit of the time limit
ContinueSearch(mode, value, timeSoFar, rootDepth) ==
    \/ /\ mode = TIME
       /\ timeSoFar * 100 < value * TIME_FACTOR_PCT
       /\ rootDepth <= MAX_DEPTH
    \/ /\ mode = DEPTH
       /\ rootDepth <= value

Mach ==
    [stack |-> stack, ret |-> ret, sp |-> sp, tt |-> tt, isStop |-> isStop,
     obs |-> obs]

Apply(r) ==
    \E x \in {r} :
        /\ stack' = x.stack
        /\ ret' = x.ret
        /\ sp' = x.sp
        /\ tt' = x.tt
        /\ isStop' = x.isStop
        /\ obs' = x.obs

Line(kind, depth, score, pv, move, complete, fresh) ==
    [kind |-> kind, depth |-> depth, score |-> score, pv |-> pv, move |-> move,
     complete |-> complete, fresh |-> fresh]

Inputs ==
    {[game |-> g, mode |-> TIME, value |-> TimeBudget] : g \in DOMAIN Games}
    \cup {[game |-> g, mode |-> MOVETIME, value |-> TimeBudget] : g \in DOMAIN Games}
    \cup {[game |-> g, mode |-> DEPTH, value |-> v] :
            g \in DOMAIN Games, v \in 1..MaxDepthBudget}

\* no list is being picked from
NoPick == [moves0 |-> <<>>, scores0 |-> <<>>, moves |-> <<>>, scores |-> <<>>,
           index |-> 0, got |-> <<>>]

\* the search before getBestMove is called
SearchIdle ==
    /\ isStop = FALSE
    /\ clock = 0
    /\ pc = "idle"
    /\ drv = [legalMoves |-> <<>>, bestMove |-> NULL_MOVE, isMate |-> FALSE,
              bestScore |-> 0, bestScoreSet |-> FALSE, bestMoveIndex |-> -1,
              rootDepth |-> 0, timeSoFar |-> 0]
    /\ rt = [i |-> 0, tempMove |-> -1, score |-> 0, alpha |-> 0, beta |-> 0,
             pvLine |-> <<>>, line |-> <<>>, complete |-> FALSE,
             finished |-> FALSE]
    /\ stack = <<>>
    /\ ret = [score |-> 0, pv |-> <<>>]
    /\ sp = reset([ply |-> 0, nullMoveCount |-> 0, timeLimit |-> 0,
                   killers |-> <<>>, history |-> <<>>])
    /\ tt = <<>>
    /\ out = <<>>
    /\ obs = [lastRet |-> [how |-> "none", alpha |-> 0, beta |-> 0, score |-> 0,
                           depth |-> 0, path |-> <<>>, pv |-> <<>>, ply |-> 0,
                           searched |-> 0, ply0 |-> 0],
              stopSeen |-> FALSE, stopRequested |-> FALSE, abortDepth |-> 0,
              abortIndex |-> 0,
              goodBest |-> NULL_MOVE, firstMove |-> NULL_MOVE,
              probe |-> [m |-> NULL_MOVE, depth |-> 0, score |-> 0,
                         type |-> ALL_NODE],
              killerHit |-> [ply |-> 0, m |-> NULL_MOVE,
                             before |-> <<NULL_MOVE, NULL_MOVE>>],
              lastStore |-> [path |-> <<>>, m |-> NULL_MOVE, type |-> ALL_NODE]]

\* no reduction is being computed
NoRed == [depth |-> 0, staticEval |-> 0, beta |-> 0, movesSearched |-> 0,
          nullDepth |-> 0, nullDone |-> FALSE, lmrDepth |-> 0, lmrDone |-> FALSE]

Init ==
    /\ inp \in Inputs
    /\ pick = NoPick
    /\ red = NoRed
    /\ SearchIdle

\* getBestMove lines 128-144
GetBestMoveEntry ==
    /\ pc = "idle"
    /\ LET legalMoves == MoveIds(AllLegal(Root)) IN
       /\ drv' = [drv EXCEPT !.legalMoves = legalMoves,
                             !.bestMove = legalMoves[1],
                             !.isMate = FALSE, !.rootDepth = 1,
                             !.timeSoFar = clock]
       /\ obs' = [obs EXCEPT !.goodBest = legalMoves[1],
                             !.firstMove = legalMoves[1]]
    /\ sp' = [reset(sp) EXCEPT !.timeLimit = TimeLimitOf(inp.mode, inp.value)]
    /\ pc' = "iter"
    /\ UNCHANGED <<red, pick, inp, isStop, clock, rt, stack, ret, tt, out>>

\* getBestMove lines 146-147 and getBestMoveAtDepth lines 181-188
IterStart ==
    /\ pc = "iter"
    /\ sp' = reset(sp)
    /\ rt' = [i |-> 0, tempMove |-> -1, score |-> -MATE_SCORE,
              alpha |-> -MATE_SCORE, beta |-> MATE_SCORE, pvLine |-> <<>>,
              line |-> <<>>, complete |-> FALSE, finished |-> FALSE]
    /\ pc' = "rootLoop"
    /\ UNCHANGED <<red, pick, inp, isStop, clock, drv, stack, ret, tt, out, obs>>

\* the call of PVS on the position after root move i
RootCall(depth, alpha, beta) ==
    /\ stack' = <<[NewFrame(<<drv.legalMoves[rt.i + 1]>>, depth, alpha, beta,
                            rt.line) EXCEPT !.ply0 = sp.ply + 1]>>
    /\ sp' = [sp EXCEPT !.ply = @ + 1]

\* getBestMoveAtDepth lines 190-214 and 223-228: the head of the loop over
\* the root moves, up to the search of the move or the return
RootLoop ==
    /\ pc = "rootLoop"
    /\ IF rt.i >= Len(drv.legalMoves)
       THEN /\ drv' = [drv EXCEPT
                !.isMate = IF rt.alpha >= MATE_SCORE - MAX_DEPTH THEN TRUE ELSE @,
                !.bestScore = rt.alpha, !.bestScoreSet = TRUE,
                !.bestMoveIndex = rt.tempMove]
            /\ rt' = [rt EXCEPT !.complete = ~obs.stopSeen, !.finished = TRUE]
            /\ pc' = "post"
            /\ UNCHANGED <<stack, sp, obs>>
       ELSE IF isStop
       THEN /\ drv' = [drv EXCEPT !.bestMoveIndex = rt.tempMove]
            /\ obs' = [obs EXCEPT !.stopSeen = TRUE,
                          !.abortDepth = IF @ = 0 THEN drv.rootDepth ELSE @,
                          !.abortIndex = IF obs.abortDepth = 0 THEN rt.i ELSE @]
            /\ pc' = "post"
            /\ UNCHANGED <<stack, sp, rt>>
       ELSE /\ IF rt.i # 0
               THEN /\ RootCall(drv.rootDepth - 1, -rt.alpha - 1, -rt.alpha)
                    /\ pc' = "rootZw"
               ELSE /\ RootCall(drv.rootDepth - 1, -rt.beta, -rt.alpha)
                    /\ pc' = "rootFull"
            /\ UNCHANGED <<drv, rt, obs>>
    /\ UNCHANGED <<red, pick, inp, isStop, clock, ret, tt, out>>

\* a root loop that lets a later move replace an equal earlier one
RootAfterOnTies(score, line) ==
    /\ rt' = IF score >= rt.alpha
             THEN [rt EXCEPT !.score = score, !.line = line, !.alpha = score,
                             !.tempMove = rt.i,
                             !.pvLine = changePV(drv.legalMoves[rt.i + 1], line),
                             !.i = @ + 1]
             ELSE [rt EXCEPT !.score = score, !.line = line, !.i = @ + 1]
    /\ pc' = "rootLoop"

\* getBestMoveAtDepth lines 216-220, then the next root move
RootAfter(score, line) ==
    /\ rt' = IF score > rt.alpha
             THEN [rt EXCEPT !.score = score, !.line = line, !.alpha = score,
                             !.tempMove = rt.i,
                             !.pvLine = changePV(drv.legalMoves[rt.i + 1], line),
                             !.i = @ + 1]
             ELSE [rt EXCEPT !.score = score, !.line = line, !.i = @ + 1]
    /\ pc' = "rootLoop"

\* getBestMoveAtDepth lines 203-208: the null-window search has returned
RootZwRet ==
    /\ pc = "rootZw"
    /\ stack = <<>>
    /\ LET score == -ret.score IN
       IF rt.alpha < score /\ score < rt.beta
       THEN /\ stack' = <<[NewFrame(<<drv.legalMoves[rt.i + 1]>>,
                                    drv.rootDepth - 1, -rt.beta, -rt.alpha,
                                    ret.pv) EXCEPT !.ply0 = sp.ply]>>
            /\ rt' = [rt EXCEPT !.score = score, !.line = ret.pv]
            /\ pc' = "rootFull"
            /\ UNCHANGED sp
       ELSE /\ RootAfter(score, ret.pv)
            /\ sp' = [sp EXCEPT !.ply = @ - 1]
            /\ UNCHANGED stack
    /\ UNCHANGED <<red, pick, inp, isStop, clock, drv, ret, tt, out, obs>>

\* getBestMoveAtDepth lines 206-207 and 212-213: a full-window search returned
RootFullRet ==
    /\ pc = "rootFull"
    /\ stack = <<>>
    /\ RootAfter(-ret.score, ret.pv)
    /\ sp' = [sp EXCEPT !.ply = @ - 1]
    /\ UNCHANGED <<red, pick, inp, isStop, clock, drv, stack, ret, tt, out, obs>>

\* getBestMove lines 148-167: the iteration has returned bestMoveIndex
Post ==
    /\ pc = "post"
    /\ IF drv.bestMoveIndex = -1
       THEN /\ pc' = "exit"
            /\ UNCHANGED <<drv, out, obs>>
       ELSE LET legalMoves == Swap(drv.legalMoves, 0, drv.bestMoveIndex) IN
            /\ \E bestScore \in (IF drv.bestScoreSet THEN {drv.bestScore}
                                 ELSE GarbageScores) :
                 out' = Append(out,
                     Line("info", drv.rootDepth,
                          TruncDiv(bestScore * 100, PAWN_VALUE_EG), rt.pvLine,
                          NULL_MOVE, rt.complete, rt.finished))
            /\ obs' = IF rt.complete
                      THEN [obs EXCEPT !.goodBest = legalMoves[1]] ELSE obs
            /\ IF drv.isMate
               THEN /\ drv' = [drv EXCEPT !.legalMoves = legalMoves,
                                          !.bestMove = legalMoves[1],
                                          !.timeSoFar = clock]
                    /\ pc' = "exit"
               ELSE /\ drv' = [drv EXCEPT !.legalMoves = legalMoves,
                                          !.bestMove = legalMoves[1],
                                          !.timeSoFar = clock,
                                          !.rootDepth = @ + 1]
                    /\ pc' = IF ContinueSearch(inp.mode, inp.value, clock,
                                               drv.rootDepth + 1)
                             THEN "iter" ELSE "exit"
    /\ UNCHANGED <<red, pick, inp, isStop, clock, rt, stack, ret, sp, tt>>

\* getBestMove lines 169-175
Exit ==
    /\ pc = "exit"
    /\ sp' = resetHistoryTable(sp)
    /\ isStop' = TRUE
    /\ out' = Append(out, Line("bestmove", 0, 0, <<>>, drv.bestMove, FALSE, FALSE))
    /\ pc' = "done"
    /\ UNCHANGED <<red, pick, inp, clock, drv, rt, stack, ret, tt, obs>>

\* ---------------------------------------------------- the steps of the search

Running(p) == stack # <<>> /\ Top(Mach).pc = p
\* the root depth and the root move of the iteration in which a poll first
\* saw the flag
NoteAbort(r) ==
    [r EXCEPT !.obs.abortDepth =
                  IF r.obs.stopSeen /\ @ = 0 THEN drv.rootDepth ELSE @,
              !.obs.abortIndex =
                  IF r.obs.stopSeen /\ obs.abortDepth = 0 THEN rt.i ELSE @]
Others == <<inp, clock, pc, drv, rt, out, pick, red>>

PVSEntry == Running("entry") /\ Apply(EntryStep(Root, Mach)) /\ UNCHANGED Others
HashRet == Running("hashRet") /\ Apply(HashRetStep(Mach)) /\ UNCHANGED Others
NullMove == Running("null") /\ Apply(NullStep(Root, Mach)) /\ UNCHANGED Others
NullRet == Running("nullRet") /\ Apply(NullRetStep(Root, Mach)) /\ UNCHANGED Others
IID == Running("iid") /\ Apply(IIDStep(Root, Mach)) /\ UNCHANGED Others
IIDZwRet == Running("iidZw") /\ Apply(IIDZwRetStep(Root, Mach)) /\ UNCHANGED Others
IIDFullRet == Running("iidFull") /\ Apply(IIDFullRetStep(Mach)) /\ UNCHANGED Others
Loop ==
    /\ Running("loop")
    /\ Apply(NoteAbort(LoopStep(Root, Mach, clock)))
    /\ UNCHANGED Others
ZwRet == Running("zwRet") /\ Apply(ZwRetStep(Root, Mach)) /\ UNCHANGED Others
FullRet == Running("fullRet") /\ Apply(FullRetStep(Root, Mach)) /\ UNCHANGED Others

\* ------------------------------------------------------------ environment
\* The flag and the clock are read where the search polls them: at the head
\* of the loop over the root moves, at the head of the move loop of PVS, and
\* (the clock) after an iteration. A write between two reads has the effect
\* of the same write just before the later read.

AtPoll == (pc = "rootLoop") \/ Running("loop")

\* the front-end sets isStop (a stop command), also before the go starts
StopRequest ==
    /\ ~isStop
    /\ pc = "idle" \/ AtPoll
    /\ isStop' = TRUE
    /\ obs' = [obs EXCEPT !.stopRequested = TRUE]
    /\ UNCHANGED <<red, pick, inp, clock, pc, drv, rt, stack, ret, sp, tt, out>>

\* time passes
Tick ==
    /\ AtPoll \/ pc = "post"
    /\ \E c \in ClockPoints : c > clock /\ clock' = c
    /\ UNCHANGED <<red, pick, inp, isStop, pc, drv, rt, stack, ret, sp, tt, out, obs>>

Step ==
    \/ GetBestMoveEntry \/ IterStart \/ RootLoop \/ RootZwRet \/ RootFullRet
    \/ Post \/ Exit
    \/ PVSEntry \/ HashRet \/ NullMove \/ NullRet
    \/ IID \/ IIDZwRet \/ IIDFullRet
    \/ Loop \/ ZwRet \/ FullRet

Next == Step \/ StopRequest \/ Tick

Spec == Init /\ [][Next]_vars

\* the search runs on its own thread and is never suspended for ever
FairSpec == Spec /\ WF_vars(Step)

\* ------------------------------------------------- the move picker alone
\* nextMove is called on a list of up to PickLen moves with scores from
\* 0..PickScores at the indices 0, 1, 2, ... the way the move loops of PVS
\* and getBestMoveForSort call it, and two calls past the end of the list.

PickLen == 3
PickScores == 2

\* the moves of a list are told apart by their place in the original list
PickInputs ==
    {[moves0 |-> [k \in 1..n |-> k], scores0 |-> ss,
      moves |-> [k \in 1..n |-> k], scores |-> ss, index |-> 0, got |-> <<>>] :
        <<n, ss>> \in UNION {{<<l, x>> : x \in [1..l -> 0..PickScores]} : l \in 0..PickLen}}

PickInit ==
    /\ pick \in PickInputs
    /\ red = NoRed
    /\ inp = [game |-> 1, mode |-> DEPTH, value |-> 1]
    /\ SearchIdle

\* Move m = nextMove(legalMoves, scores, i); i++
NextMoveCall ==
    /\ pick.index <= Len(pick.moves0) + 1
    /\ LET r == nextMove(pick.moves, pick.scores, pick.index)
       IN  pick' = [pick EXCEPT !.moves = r.moves, !.scores = r.scores,
                                !.index = @ + 1, !.got = Append(@, r.m)]
    /\ UNCHANGED <<red, inp, isStop, clock, pc, drv, rt, stack, ret, sp, tt, out,
                   obs>>

PickNext == NextMoveCall

PickSpec == PickInit /\ [][PickNext]_vars

\* ------------------------------------------------- the reductions alone
\* The depth of the search after a null move and of a late-move-reduced
\* search, for the depths 3..RedMaxDepth of the node, evaluations around
\* beta and up to RedMaxMoves moves searched before the move.

RedMaxDepth == 14
RedMaxMoves == 12
\* beta, and the static evaluation as a distance from beta
RedBetas == {-MATE_SCORE + 1, -100, 0, 1, MATE_SCORE}
RedMargins == {-250, -1, 0, 99, 100, 250, 975, 2 * QUEEN_VALUE}

RedInputs ==
    {[depth |-> d, staticEval |-> b + g, beta |-> b, movesSearched |-> k,
      nullDepth |-> 0, nullDone |-> FALSE, lmrDepth |-> 0, lmrDone |-> FALSE] :
        d \in 3..RedMaxDepth, b \in RedBetas, g \in RedMargins,
        k \in 0..RedMaxMoves}

RedInit ==
    /\ red \in RedInputs
    /\ pick = NoPick
    /\ inp = [game |-> 1, mode |-> DEPTH, value |-> 1]
    /\ SearchIdle

RedOthers == <<pick, inp, isStop, clock, pc, drv, rt, stack, ret, sp, tt, out, obs>>

\* PVS lines 322-338: the depth of the search after the null move, for a
\* node that passes the tests on depth and on the evaluation
NullMoveDepth ==
    /\ ~red.nullDone
    /\ red.depth >= 3 /\ red.staticEval >= red.beta
    /\ red' = [red EXCEPT
                  !.nullDepth = red.depth - 1
                      - NullReduction(red.depth, red.staticEval, red.beta),
                  !.nullDone = TRUE]
    /\ UNCHANGED RedOthers

\* PVS lines 488-499: the depth of the null-window search of a late move
LateMoveDepth ==
    /\ ~red.lmrDone
    /\ red.depth >= 3 /\ red.movesSearched > 2
    /\ red' = [red EXCEPT
                  !.lmrDepth = red.depth - 1
                      - LMReduction(red.depth, red.movesSearched),
                  !.lmrDone = TRUE]
    /\ UNCHANGED RedOthers

RedNext == NullMoveDepth \/ LateMoveDepth

RedSpec == RedInit /\ [][RedNext]_vars

\* ------------------------------------------------------------- properties

\* the lines of stdout by kind
InfoLines == {k \in 1..Len(out) : out[k].kind = "info"}
BestmoveLines == {k \in 1..Len(out) : out[k].kind = "bestmove"}

\* the last return of PVS: how it returned, its window, score and line
LastRet == obs.lastRet
PVSReturned == LastRet.how # "none"
LastNode == NodeAt(Root, LastRet.path)

\* x clamped into [alpha, beta]
Clamp(x, alpha, beta) ==
    IF x >= beta THEN beta ELSE IF x > alpha THEN x ELSE alpha

\* pv is a line of legal moves from n
RECURSIVE LegalLine(_, _)
LegalLine(n, pv) ==
    \/ pv = <<>>
    \/ /\ IsLegalMove(n, Head(pv))
       /\ LegalLine(EdgeOf(n, Head(pv))[1].sub, Tail(pv))

\* the root moves in generation order, and the exact depth-1 score of one
RootMoves == MoveIds(AllLegal(Root))
RootScoreAtDepth1(m) ==
    -quiescence(EdgeOf(Root, m)[1].sub, 0, -MATE_SCORE, MATE_SCORE, 1)
\* the first of the first k root moves that has their highest depth-1 score
FirstBest(k) ==
    CHOOSE j \in 1..k :
        /\ \A i \in 1..k :
             RootScoreAtDepth1(RootMoves[i]) <= RootScoreAtDepth1(RootMoves[j])
        /\ \A i \in 1..(j - 1) :
             RootScoreAtDepth1(RootMoves[i]) < RootScoreAtDepth1(RootMoves[j])

\* C1: when the stop flag is seen while a root iteration of depth >= 2 is
\* in progress, the move printed as bestmove is the best move of the last
\* iteration that was completed: the aborted iteration changes nothing.
C1_AbortKeepsLastCompleted ==
    (pc = "done" /\ obs.abortDepth >= 2) => drv.bestMove = obs.goodBest

C3_InfoOnlyForCompleted ==
    \A k \in InfoLines :
        out[k].complete /\ out[k].fresh /\ out[k].depth = k

HistoryZero == \A k \in DOMAIN sp.history : sp.history[k] = 0

\* getBestMove has returned: one bestmove line, the last line of stdout,
\* the stop flag set and the history table zero
C5_Returned ==
    /\ pc = "done"
    /\ Cardinality(BestmoveLines) = 1
    /\ out[Len(out)].kind = "bestmove"
    /\ isStop
    /\ HistoryZero

\* C5: every call of getBestMove on a position with a legal move eventually
\* prints exactly one bestmove line, after every info line of the call, and
\* on return the stop flag is true and every history counter is zero.
C5_EventuallyOneBestmove ==
    /\ [](pc # "done" => BestmoveLines = {})
    /\ <>[]C5_Returned

\* a call that printed info lines has returned
C5_ReturnedAfterInfo ==
    /\ C5_Returned
    /\ Cardinality(InfoLines) >= 2

\* C6: in MOVETIME mode getBestMove uses the time limit of TIME mode,
\* MAX_TIME_FACTOR times the budget, and leaves the loop over the
\* iterations only when the condition of TIME mode is false.
C6_MovetimeAsTime ==
    inp.mode \in {TIME, MOVETIME} =>
        /\ pc # "idle" => sp.timeLimit = MAX_TIME_FACTOR * inp.value
        /\ (pc = "exit" /\ drv.bestMoveIndex # -1 /\ ~drv.isMate) =>
              ~(/\ drv.timeSoFar * 100 < inp.value * TIME_FACTOR_PCT
                /\ drv.rootDepth <= MAX_DEPTH)

\* a frame of PVS that has scored quiet moves against killers[ply]
IndexesKillers(f) ==
    /\ f.pc \in {"loop", "zwRet", "fullRet", "iid", "iidZw", "iidFull"}
    /\ \E k \in 1..Len(f.moves) : ~isCapture(f.moves[k])

\* C7: in every mode and for every budget, the root depth of an iteration
\* is at most MAX_DEPTH and 0 <= ply <= MAX_DEPTH, every killers[ply] of a
\* PVS node has ply < MAX_DEPTH, and every IID_DEPTHS[depth] has
\* depth <= MAX_DEPTH.
C7_DepthAndPlyInRange ==
    /\ pc \in {"rootLoop", "rootZw", "rootFull"} => drv.rootDepth <= MAX_DEPTH
    /\ sp.ply >= 0 /\ sp.ply <= MAX_DEPTH
    /\ \A k \in 1..Len(stack) :
          /\ IndexesKillers(stack[k]) => Len(stack[k].path) < MAX_DEPTH
          /\ stack[k].depth <= MAX_DEPTH

\* C8: in DEPTH mode with budget N >= 1, with no stop request and no
\* near-mate score, the driver completes the iterations of depth 1, ..., N
\* in order and exits, and the search never sets the stop flag before exit.
C8_DepthModeIterations ==
    (inp.mode = DEPTH /\ ~obs.stopRequested /\ ~drv.isMate) =>
        /\ \A k \in InfoLines : out[k].depth = k /\ out[k].complete
        /\ Cardinality(InfoLines) <= inp.value
        /\ pc \in {"exit", "done"} => Cardinality(InfoLines) = inp.value
        /\ pc # "done" => ~isStop /\ ~obs.stopSeen

\* a DEPTH-mode call with budget 3 has returned after three iterations
C8_ThreeIterations ==
    /\ pc = "done"
    /\ inp.mode = DEPTH /\ inp.value = 3
    /\ ~obs.stopRequested /\ ~drv.isMate
    /\ Cardinality(InfoLines) = 3

\* C9: the principal variation handed back by PVS with a score inside
\* (alpha, beta), and the one the root prints, is a line of legal moves,
\* however the child returned.
C9_LegalLines ==
    /\ \A k \in InfoLines : LegalLine(Root, out[k].pv)
    /\ (PVSReturned /\ LastRet.alpha < LastRet.score
                    /\ LastRet.score < LastRet.beta) =>
          LegalLine(LastNode, LastRet.pv)

\* C10 as stated: PVS called on a drawn position, at any depth, depth <= 0
\* included, returns 0 clamped into [alpha, beta].
C10_DrawnAnyDepth ==
    (PVSReturned /\ LastNode.draw) =>
        LastRet.score = Clamp(0, LastRet.alpha, LastRet.beta)

\* C10: PVS called on a drawn position with depth >= 1 returns 0 clamped
\* into [alpha, beta]; with depth <= 0 it returns the quiescence score of
\* the position.
C10_DrawnAboveLeaf ==
    (PVSReturned /\ LastNode.draw) =>
        LastRet.score =
            IF LastRet.depth >= 1
            THEN Clamp(0, LastRet.alpha, LastRet.beta)
            ELSE quiescence(LastNode, 0, LastRet.alpha, LastRet.beta,
                            LastRet.ply)

\* PVS has returned from a drawn position at depth >= 1 with a window
\* that does not hold 0
C10_DrawnClamped ==
    /\ PVSReturned /\ LastNode.draw
    /\ LastRet.depth >= 1
    /\ LastRet.alpha > 0
    /\ LastRet.score = LastRet.alpha

\* the position of the last return has no legal move
NoLegalMove == AllLegal(LastNode) = <<>>

\* C11: PVS called with depth >= 1 and not stopped on a position without a
\* legal move returns -MATE_SCORE + ply clamped into [alpha, beta] when the
\* side to move is in check and 0 clamped into [alpha, beta] when it is
\* not, whatever the null move, reverse futility and futility pruning do.
C11_MateOrStalemateScore ==
    (PVSReturned /\ LastRet.depth >= 1 /\ LastRet.how # "stop" /\ NoLegalMove) =>
        LastRet.score =
            Clamp(IF LastNode.chk THEN -MATE_SCORE + LastRet.ply ELSE 0,
                  LastRet.alpha, LastRet.beta)

\* every hash move a frame of PVS holds is legal in the frame's position
HashMovesLegal ==
    \A k \in 1..Len(stack) :
        stack[k].hashed # NULL_MOVE =>
            IsLegalMove(NodeAt(Root, stack[k].path), stack[k].hashed)

\* C12: when the probe of the table finds an entry whose move is not legal
\* in the position, probeTT takes no score cutoff from the entry and the
\* node goes on without a hash move.
C12_IllegalHashMoveIgnored ==
    /\ (LastRet.how = "ttcut" /\ obs.probe.type # ALL_NODE) =>
            IsLegalMove(LastNode, obs.probe.m)
    /\ HashMovesLegal

\* the frame on top of the stack has a child search that has just returned
\* the abort value
AbortedChildReturned ==
    /\ stack # <<>>
    /\ Top(Mach).pc \in {"hashRet", "nullRet", "iidZw", "iidFull", "zwRet", "fullRet"}
    /\ LastRet.how = "stop"
    /\ ret.score = -INFTY

\* C13: when a child search returns the abort value -INFTY, the step in
\* which its caller takes up the result stores no entry in the
\* transposition table, changes no killer slot and increments no history
\* counter.
C13_AbortedChildLeavesTables ==
    [][AbortedChildReturned =>
          /\ tt' = tt
          /\ sp'.killers = sp.killers
          /\ sp'.history = sp.history]_vars

\* the move whose search the frame f waits for
SearchedMove(f) == IF f.pc = "hashRet" THEN f.hashed ELSE f.m

\* this step is the return of the PVS frame on top of the stack with a
\* fail-high of the move it has just searched, a move that is no capture
QuietFailHigh ==
    /\ stack # <<>>
    /\ Top(Mach).pc \in {"hashRet", "zwRet", "fullRet"}
    /\ Len(stack') < Len(stack)
    /\ obs'.lastRet.how \in {"failhigh", "hashcut"}
    /\ ~isCapture(SearchedMove(Top(Mach)))

\* C14: when a move that is no capture fails high at a PVS node of depth d,
\* the hash move tried in the probe included, the history counter of its
\* side, piece and destination grows by exactly d * d in that step.
C14_QuietFailHighHistory ==
    [][QuietFailHigh =>
          LET f == Top(Mach)
              m == SearchedMove(f)
          IN  HistoryAt(sp', ColorAt(f.path), m) =
                  HistoryAt(sp, ColorAt(f.path), m) + f.depth * f.depth]_vars

\* the rows of the array killers[MAX_DEPTH][2]
KillerPlies == 0..(MAX_DEPTH - 1)

\* the last quiet fail-high: its ply, its move and the killers it found
KillerHit == obs.killerHit

\* a quiet fail-high by the move that was in slot 1 of its ply
SlotOneFailHigh ==
    /\ obs'.killerHit # obs.killerHit
    /\ obs'.killerHit.m # NULL_MOVE
    /\ obs'.killerHit.m = obs'.killerHit.before[2]

\* C15: in every state and for every ply p, killers[p][0] differs from
\* killers[p][1] unless both are the null move; a fail-high by the move in
\* slot 1 leaves the two killers of the ply with their slots swapped.
C15_KillersDistinct ==
    /\ [](\A p \in KillerPlies :
            \/ sp.killers[p][1] # sp.killers[p][2]
            \/ sp.killers[p] = <<NULL_MOVE, NULL_MOVE>>)
    /\ [][SlotOneFailHigh =>
            sp'.killers[obs'.killerHit.ply] =
                <<obs'.killerHit.before[2], obs'.killerHit.before[1]>>]_vars

\* the move in slot 1 has failed high and the slots have been swapped
C15_SlotsSwapped ==
    /\ KillerHit.m # NULL_MOVE
    /\ KillerHit.before[1] # NULL_MOVE
    /\ KillerHit.m = KillerHit.before[2]
    /\ KillerHit.ply \in KillerPlies
    /\ sp.killers[KillerHit.ply] = <<KillerHit.before[2], KillerHit.before[1]>>

\* the positions of a PVS call where a callee has returned and the caller's
\* searchParams.ply-- has not run yet
AfterCall == {"hashRet", "nullRet", "iidZw", "iidFull", "zwRet", "fullRet"}

\* C16: searchParams.ply is restored on every return: a PVS call returns with
\* the ply it was entered with (quiescence and checkQuiescence below it never
\* write ply); inside a call, probeTT and getBestMoveForSort leave ply at the
\* entry value once the callee's return has been followed by ply--; and the
\* driver finds ply = 0 between root moves.
C16_PlyRestored ==
    /\ LastRet.how # "none" => LastRet.ply = LastRet.ply0
    /\ stack # <<>> =>
          /\ \A k \in 1..Len(stack) : stack[k].ply0 = k
          /\ sp.ply = Top(Mach).ply0
                      + (IF Top(Mach).pc \in AfterCall THEN 1 ELSE 0)
    /\ stack = <<>> =>
          sp.ply = IF pc \in {"rootZw", "rootFull"} THEN 1 ELSE 0

\* a PVS call two or more plies below the root has returned through its
\* probeTT hash-move cutoff, and its caller has not run ply-- yet
C16_DeepReturn ==
    /\ LastRet.how = "hashcut"
    /\ LastRet.ply0 >= 2
    /\ LastRet.ply = LastRet.ply0
    /\ stack # <<>> /\ Top(Mach).pc \in AfterCall
    /\ sp.ply = Top(Mach).ply0 + 1

\* the last entry the search stored: the path of its position, move and type
LastStore == obs.lastStore

\* C17: every entry the search stores in the transposition table has the null
\* move if its type is ALL, and a non-null move that is legal in the position
\* it was stored for if its type is PV or CUT.
C17_StoredMoves ==
    /\ \A k \in DOMAIN tt :
          IF tt[k].type = ALL_NODE THEN tt[k].m = NULL_MOVE
          ELSE tt[k].type \in {PV_NODE, CUT_NODE} /\ tt[k].m # NULL_MOVE
    /\ IF LastStore.type = ALL_NODE THEN LastStore.m = NULL_MOVE
       ELSE /\ LastStore.type \in {PV_NODE, CUT_NODE}
            /\ LastStore.m # NULL_MOVE
            /\ IsLegalMove(NodeAt(Root, LastStore.path), LastStore.m)

\* the table holds an entry with a move and, stored after it, an ALL entry
\* without one
C17_BothKindsStored ==
    /\ \E k \in DOMAIN tt : tt[k].type # ALL_NODE /\ tt[k].m # NULL_MOVE
    /\ LastStore.type = ALL_NODE
    /\ NodeAt(Root, LastStore.path).key \in DOMAIN tt
    /\ tt[NodeAt(Root, LastStore.path).key].type = ALL_NODE
    /\ tt[NodeAt(Root, LastStore.path).key].m = NULL_MOVE

\* the moves nextMove has returned so far, and how many of them were taken
\* from the list (the calls at indices 0..n-1)
Got == pick.got
Picked == Min(Len(pick.got), Len(pick.moves0))

\* the score the original list gives the move m
Score0(m) == pick.scores0[m]

\* C18: nextMove called at indices 0, 1, ..., n-1 on a list of n moves and
\* its score list returns every move of the original list exactly once, in
\* non-increasing order of score, keeps each move in the list paired with its
\* own score, and returns the null move for every index >= n.
C18_NextMoveOrder ==
    /\ \A k \in 1..Len(Got) :
          IF k <= Len(pick.moves0) THEN Got[k] \in 1..Len(pick.moves0)
          ELSE Got[k] = NULL_MOVE
    /\ \A j, k \in 1..Picked :
          j < k => Got[j] # Got[k] /\ Score0(Got[j]) >= Score0(Got[k])
    /\ Len(Got) >= Len(pick.moves0) =>
          {Got[k] : k \in 1..Picked} = 1..Len(pick.moves0)
    /\ Len(pick.moves) = Len(pick.moves0) /\ Len(pick.scores) = Len(pick.moves0)
    /\ \A j \in 1..Len(pick.moves) :
          /\ pick.moves[j] \in 1..Len(pick.moves0)
          /\ pick.scores[j] = Score0(pick.moves[j])
          /\ j <= Picked => pick.moves[j] = Got[j]

\* a list of PickLen moves whose last move has the best score has been
\* picked to the end, and nextMove has been called twice past the end
C18_PickedPastEnd ==
    /\ Len(pick.moves0) = PickLen
    /\ Len(Got) = PickLen + 2
    /\ Got[1] = PickLen
    /\ Got[PickLen + 2] = NULL_MOVE
    /\ \E j, k \in 1..PickLen : Score0(j) # Score0(k)

\* C19: the move picker is stable: moves with equal scores are returned in
\* the relative order they had in the list before the first call.
C19_NextMoveStable ==
    \A j, k \in 1..Picked :
        (j < k /\ Score0(Got[j]) = Score0(Got[k])) => Got[j] < Got[k]

\* the move sequences played by the quiescence call of the PVS leaf that
\* returned last
LeafPaths ==
    IF LastRet.how = "leaf"
    THEN quiescencePaths(LastNode, 0, LastRet.alpha, LastRet.beta, LastRet.ply)
    ELSE {}

\* a move that is neither a capture nor a promotion
QuietStep(s) == ~isCapture(s.m) /\ ~isPromotion(s.m)

\* the moves of the first k entries of a path
RECURSIVE PathMoves(_, _)
PathMoves(q, k) == IF k = 0 THEN <<>> ELSE Append(PathMoves(q, k - 1), q[k].m)

\* the number of captures and promotions of a path
CapturesAndPromotions(q) == Cardinality({k \in 1..Len(q) : ~QuietStep(q[k])})

LoopEndReturn ==
    /\ stack # <<>>
    /\ Top(Mach).pc = "loop"
    /\ Len(stack') < Len(stack)
    /\ obs'.lastRet.how \in {"normal", "mate"}
    /\ obs'.lastRet.searched >= 1

\* C21: a PVS node that searched a legal move and leaves its move loop
\* without a fail-high or a stop stores one entry for its position in that
\* step: a PV entry with a legal best move and the final alpha if the score
\* returned is above the alpha of the call (also when only the hash move of
\* the probe raised it), otherwise an ALL entry with the null move.
C21_TerminalStore ==
    [][LoopEndReturn =>
          LET f == Top(Mach)
              n == NodeAt(Root, f.path)
              r == obs'.lastRet
          IN  /\ n.key \in DOMAIN tt'
              /\ tt'[n.key].depth = f.depth
              /\ tt'[n.key].score = r.score
              /\ IF r.score > r.alpha
                 THEN /\ tt'[n.key].type = PV_NODE
                      /\ IsLegalMove(n, tt'[n.key].m)
                 ELSE /\ tt'[n.key].type = ALL_NODE
                      /\ tt'[n.key].m = NULL_MOVE]_vars

\* C22: a PVS node returns the score of scoreMate only if it searched no
\* legal move; a node whose hash move was searched in the probe returns the
\* alpha that search left, not the stalemate score 0 or the mate score.
C22_ScoreMateOnlyWithoutMoves ==
    (LastRet.how = "mate" /\ LastRet.depth >= 1) => LastRet.searched = 0

\* the number of null moves the path ends with
RECURSIVE TrailingNulls(_)
TrailingNulls(path) ==
    IF path = <<>> \/ path[Len(path)] # NULL_MOVE THEN 0
    ELSE 1 + TrailingNulls(SubSeq(path, 1, Len(path) - 1))

\* C23: nullMoveCount is the number of consecutive null moves the current
\* search path ends with (0 once a real move is played below a null move),
\* it never exceeds 2, and it is back at its value of the call when the
\* null-move branch of PVS is left.
C23_ConsecutiveNullMoves ==
    /\ sp.nullMoveCount \in 0..2
    /\ (stack # <<>> /\ Top(Mach).pc \notin AfterCall) =>
          sp.nullMoveCount = TrailingNulls(Top(Mach).path)
    /\ stack = <<>> => sp.nullMoveCount = 0

\* the positions of the tree below n, n included
RECURSIVE Below(_)
Below(n) ==
    {n} \cup UNION {Below(n.mvs[k].sub) : k \in 1..Len(n.mvs)}
        \cup UNION {Below(n.nul[k]) : k \in 1..Len(n.nul)}

\* a position below n where checkQuiescence finds no legal move
MateBelow(n) == \E x \in Below(n) : x.chk /\ AllLegal(x) = <<>>

\* the windows the two functions are tried with when a PVS leaf has
\* returned: the window of the leaf, its mirror, the full window and a null
\* window around 0
QWindows ==
    {<<LastRet.alpha, LastRet.beta>>, <<-LastRet.beta, -LastRet.alpha>>,
     <<-MATE_SCORE, MATE_SCORE>>, <<-1, 0>>}

\* what quiescence, or checkQuiescence for a side in check, returns
QValue(n, plies, w, ply, check) ==
    IF check THEN checkQuiescence(n, plies, w[1], w[2], ply)
    ELSE quiescence(n, plies, w[1], w[2], ply)

\* the calls tried: a position at or below the leaf, plies, a window, and
\* checkQuiescence only for a position in check
QCalls ==
    IF LastRet.how # "leaf" THEN {}
    ELSE {c \in [n : Below(LastNode), plies : 0..1, w : QWindows, check : BOOLEAN] :
             c.check => c.n.chk}

\* this step is a PVS call at depth <= 0, which returns what quiescence returns
LeafStep ==
    /\ stack # <<>>
    /\ Top(Mach).pc = "entry"
    /\ Top(Mach).depth <= 0

\* every value of quiescence and checkQuiescence is within the window, and
\* the functions neither read nor write the table, the killers, the
\* history, ply or nullMoveCount
C24_FailHardAndReadsNothing ==
    /\ [](\A c \in QCalls :
            /\ c.w[1] <= QValue(c.n, c.plies, c.w, LastRet.ply, c.check)
            /\ QValue(c.n, c.plies, c.w, LastRet.ply, c.check) <= c.w[2]
            /\ QValue(c.n, c.plies, c.w, LastRet.ply + 1, c.check)
                  = QValue(c.n, c.plies, c.w, LastRet.ply, c.check))
    /\ [][LeafStep => tt' = tt /\ sp' = sp]_vars

\* C24: every value returned by quiescence or checkQuiescence called with
\* alpha < beta is within [alpha, beta], also after stand-pat raised alpha
\* and on the mate path of checkQuiescence; neither function writes the
\* table, the killers, the history, ply or nullMoveCount, and of these they
\* read only ply, for the mate score of checkQuiescence: where no mate is
\* below the position the value is the same at every ply.
C24_FailHardAndWritesNothing ==
    /\ [](\A c \in QCalls :
            /\ c.w[1] <= QValue(c.n, c.plies, c.w, LastRet.ply, c.check)
            /\ QValue(c.n, c.plies, c.w, LastRet.ply, c.check) <= c.w[2]
            /\ ~MateBelow(c.n) =>
                  QValue(c.n, c.plies, c.w, LastRet.ply + 1, c.check)
                    = QValue(c.n, c.plies, c.w, LastRet.ply, c.check))
    /\ [][LeafStep => tt' = tt /\ sp' = sp]_vars

\* a PVS leaf has returned the value of a mated position, clamped to alpha,
\* and the full window gives the position a mate score that grows with ply
C24_MateAtLeaf ==
    /\ LastRet.how = "leaf"
    /\ LastNode.chk /\ AllLegal(LastNode) = <<>>
    /\ LastRet.score = LastRet.alpha
    /\ -MATE_SCORE + LastRet.ply < LastRet.alpha
    /\ checkQuiescence(LastNode, 0, -MATE_SCORE, MATE_SCORE, LastRet.ply)
          = -MATE_SCORE + LastRet.ply

\* C25: for every depth >= 3, every static evaluation and every move count,
\* the depth of the search after a null move and the depth of a
\* late-move-reduced search are at least 1 and at most depth - 1.
C25_ReducedDepthInRange ==
    /\ red.nullDone => (1 <= red.nullDepth /\ red.nullDepth <= red.depth - 1)
    /\ red.lmrDone => (1 <= red.lmrDepth /\ red.lmrDepth <= red.depth - 1)

\* a node of depth 11 or more, far above beta, with a late move: the null
\* move is searched at depth 1 and the late move below depth - 1
C25_BothReduced ==
    /\ red.nullDone /\ red.lmrDone
    /\ red.depth >= 11
    /\ red.staticEval - red.beta >= 2 * QUEEN_VALUE
    /\ red.nullDepth = 1
    /\ red.lmrDepth < red.depth - 1

\* this step is the return of the PVS frame on top of the stack with a
\* fail-high of the move of its move loop, which stores a CUT entry
LoopFailHigh ==
    /\ stack # <<>>
    /\ Top(Mach).pc \in {"zwRet", "fullRet"}
    /\ Len(stack') < Len(stack)
    /\ obs'.lastRet.how = "failhigh"

\* C26: a CUT entry stored with depth d comes from a search of its move at
\* depth d - 1: the search of the move that returned last before the store
\* was not a reduced one.
C26_CutFromFullDepth ==
    [][LoopFailHigh =>
          /\ obs'.lastStore = [path |-> Top(Mach).path, m |-> Top(Mach).m,
                               type |-> CUT_NODE]
          /\ tt'[NodeAt(Root, Top(Mach).path).key].depth = Top(Mach).depth
          /\ obs.lastRet.path = Append(Top(Mach).path, Top(Mach).m)
          /\ obs.lastRet.depth = Top(Mach).depth - 1]_vars

\* the last info record of the output
LastInfoLine == out[CHOOSE k \in InfoLines : \A j \in InfoLines : j <= k]

\* legalMoves holds the moves of getAllLegalMoves, each once
IsRootPermutation(moves) ==
    LET initial == MoveIds(AllLegal(Root)) IN
    /\ Len(moves) = Len(initial)
    /\ \A k \in 1..Len(initial) :
           Cardinality({j \in 1..Len(moves) : moves[j] = initial[k]}) = 1

\* C27: when getBestMove has printed an info record, the move of its
\* bestmove line is the first move of the PV of the last info record; and
\* when a root iteration after the first begins, the root move list is a
\* permutation of the legal moves of the root with that move first.
C27_BestmoveHeadsLastPV ==
    /\ (pc = "done" /\ InfoLines # {}) =>
           /\ out[Len(out)].kind = "bestmove"
           /\ LastInfoLine.pv # <<>>
           /\ out[Len(out)].move = LastInfoLine.pv[1]
    /\ (pc = "iter" /\ drv.rootDepth > 1) =>
           /\ InfoLines # {}
           /\ LastInfoLine.pv # <<>>
           /\ IsRootPermutation(drv.legalMoves)
           /\ drv.legalMoves[1] = LastInfoLine.pv[1]

\* getBestMove has ended after an iteration that was cut short changed the
\* best move: the last info record is of that iteration and the bestmove
\* line names a move that was not first in the initial list
C27_AbortedIterationChangedBest ==
    /\ pc = "done"
    /\ Cardinality(InfoLines) >= 2
    /\ ~LastInfoLine.complete
    /\ out[Len(out)].move # obs.firstMove
    /\ drv.legalMoves # MoveIds(AllLegal(Root))

\* getBestMoveAtDepth has run its reset() and has not searched a root move
IterationBegun == pc = "rootLoop" /\ rt.i = 0

\* C28: when a root iteration begins, the first as well as every later one,
\* ply and nullMoveCount are 0, every killer slot holds the null move and
\* every history counter is 0, so nothing of the killers and the history of
\* the iteration before is left; the step that begins the iteration leaves
\* the transposition table as it is.
C28_IterationStartsClean ==
    /\ [](IterationBegun =>
             /\ sp.ply = 0
             /\ sp.nullMoveCount = 0
             /\ \A r \in DOMAIN sp.killers :
                    sp.killers[r] = <<NULL_MOVE, NULL_MOVE>>
             /\ HistoryZero)
    /\ [][(pc = "iter" /\ pc' = "rootLoop") => tt' = tt]_vars

\* a later iteration begins after a search that stored a killer move and
\* left entries in the transposition table
C28_LaterIterationBegun ==
    /\ IterationBegun
    /\ drv.rootDepth >= 2
    /\ obs.killerHit.m # NULL_MOVE
    /\ \E k \in DOMAIN tt : tt[k].m # NULL_MOVE


====
